---- MODULE Spec2Model ----
(***************************************************************************)
(* Model of the SQL similarity evaluation in src/src/eval.py: the lexical  *)
(* similarity (cosine_similarity), the structural distance (ast_distance), *)
(* the pairwise evaluator (evaluate_query) and the batch run (main).       *)
(*                                                                         *)
(* Python's float is IEEE-754 binary64.  The scores are computed with      *)
(* sqrt, * and / on floats, so the model carries an exact software model   *)
(* of non-negative binary64 values (53-bit mantissa, round to nearest,     *)
(* ties to even).  TLC's integers are 32 bits wide, so mantissas and the   *)
(* wider intermediate values are held as four limbs of 27 bits.            *)
(***************************************************************************)
EXTENDS Integers, Sequences, FiniteSets

(***************************************************************************)
(* Multi-limb naturals: <<l1, l2, l3, l4>> is l1 + l2*B + l3*B^2 + l4*B^3. *)
(***************************************************************************)
Base == 2^27

BigZero == <<0, 0, 0, 0>>

BigOne == <<1, 0, 0, 0>>

BigFromInt(n) == <<n % Base, n \div Base, 0, 0>>

BigAdd(a, b) ==
  LET s1 == a[1] + b[1]
      s2 == a[2] + b[2] + (s1 \div Base)
      s3 == a[3] + b[3] + (s2 \div Base)
      s4 == a[4] + b[4] + (s3 \div Base)
  IN  <<s1 % Base, s2 % Base, s3 % Base, s4 % Base>>

\* a - b, for a >= b
BigSub(a, b) ==
  LET d1 == a[1] - b[1]
      d2 == a[2] - b[2] - (IF d1 < 0 THEN 1 ELSE 0)
      d3 == a[3] - b[3] - (IF d2 < 0 THEN 1 ELSE 0)
      d4 == a[4] - b[4] - (IF d3 < 0 THEN 1 ELSE 0)
      W(d) == IF d < 0 THEN d + Base ELSE d
  IN  <<W(d1), W(d2), W(d3), W(d4)>>

BigLess(a, b) ==
  IF a[4] # b[4] THEN a[4] < b[4]
  ELSE IF a[3] # b[3] THEN a[3] < b[3]
  ELSE IF a[2] # b[2] THEN a[2] < b[2]
  ELSE a[1] < b[1]

BigIsOdd(a) == a[1] % 2 = 1

\* a * 2^k and a \div 2^k for 0 <= k < 27
ShlBits(a, k) ==
  LET P == 2^k
      Q == 2^(27 - k)
  IN  <<(a[1] % Q) * P,
        (a[2] % Q) * P + (a[1] \div Q),
        (a[3] % Q) * P + (a[2] \div Q),
        (a[4] % Q) * P + (a[3] \div Q)>>

ShrBits(a, k) ==
  LET P == 2^k
      Q == 2^(27 - k)
  IN  <<(a[1] \div P) + (a[2] % P) * Q,
        (a[2] \div P) + (a[3] % P) * Q,
        (a[3] \div P) + (a[4] % P) * Q,
        (a[4] \div P)>>

ShlLimbs(a, j) ==
  <<IF j = 0 THEN a[1] ELSE 0,
    IF j = 0 THEN a[2] ELSE IF j = 1 THEN a[1] ELSE 0,
    IF j = 0 THEN a[3] ELSE IF j = 1 THEN a[2] ELSE IF j = 2 THEN a[1] ELSE 0,
    IF j = 0 THEN a[4] ELSE IF j = 1 THEN a[3] ELSE IF j = 2 THEN a[2]
                       ELSE IF j = 3 THEN a[1] ELSE 0>>

ShrLimbs(a, j) ==
  <<IF j = 0 THEN a[1] ELSE IF j = 1 THEN a[2] ELSE IF j = 2 THEN a[3]
                       ELSE IF j = 3 THEN a[4] ELSE 0,
    IF j = 0 THEN a[2] ELSE IF j = 1 THEN a[3] ELSE IF j = 2 THEN a[4] ELSE 0,
    IF j = 0 THEN a[3] ELSE IF j = 1 THEN a[4] ELSE 0,
    IF j = 0 THEN a[4] ELSE 0>>

BigShl(a, r) == ShlLimbs(ShlBits(a, r % 27), r \div 27)

BigShr(a, r) == ShrBits(ShrLimbs(a, r \div 27), r % 27)

RECURSIVE IntBitLen(_)
IntBitLen(x) == IF x = 0 THEN 0 ELSE 1 + IntBitLen(x \div 2)

BigBitLen(a) ==
  IF a[4] # 0 THEN 81 + IntBitLen(a[4])
  ELSE IF a[3] # 0 THEN 54 + IntBitLen(a[3])
  ELSE IF a[2] # 0 THEN 27 + IntBitLen(a[2])
  ELSE IntBitLen(a[1])

BigBit(a, i) == (a[(i \div 27) + 1] \div 2^(i % 27)) % 2

\* a * b by shift and add over the bits of b, from the top one down (the
\* test of acc has TLC compute it at every step instead of at the end)
RECURSIVE MulLoop(_, _, _, _)
MulLoop(acc, a, b, i) ==
  IF i < 0 \/ acc[4] >= Base THEN acc
  ELSE LET dbl == BigAdd(acc, acc)
       IN  MulLoop(IF BigBit(b, i) = 1 THEN BigAdd(dbl, a) ELSE dbl, a, b, i - 1)

BigMul(a, b) == MulLoop(BigZero, a, b, BigBitLen(b) - 1)

\* n more quotient bits of r / d by restoring division, for r < d < 2^54 held
\* as two limbs each (rh, rl and dh, dl): <<quotient bits, rh, rl>>, q < 2^30
\* (the test of q has TLC compute it at every step instead of at the end)
RECURSIVE DivBits(_, _, _, _, _, _)
DivBits(q, rh, rl, dh, dl, n) ==
  IF n = 0 \/ q < 0 THEN <<q, rh, rl>>
  ELSE LET tl == (2 * rl) % Base
           th == 2 * rh + ((2 * rl) \div Base)
       IN  IF th < dh \/ (th = dh /\ tl < dl)
           THEN DivBits(2 * q, th, tl, dh, dl, n - 1)
           ELSE DivBits(2 * q + 1,
                        IF tl < dl THEN th - dh - 1 ELSE th - dh,
                        IF tl < dl THEN tl - dl + Base ELSE tl - dl,
                        dh, dl, n - 1)

\* integer square root, bit by bit: <<floor(sqrt(n)), remainder>>; p is even
RECURSIVE SqrtLoop(_, _, _)
SqrtLoop(n, res, p) ==
  IF p < 0 THEN <<res, n>>
  ELSE LET bit == BigShl(BigOne, p)
           t == BigAdd(res, bit)
           half == ShrBits(res, 1)
       IN  IF BigLess(n, t) THEN SqrtLoop(n, half, p - 2)
           ELSE SqrtLoop(BigSub(n, t), BigAdd(half, bit), p - 2)

(***************************************************************************)
(* Non-negative binary64 values: [m, e] is m * 2^e with 2^52 <= m < 2^53,  *)
(* or zero ([m |-> BigZero, e |-> 0]).  The form is unique, so two values  *)
(* are equal as floats exactly when the records are equal.                 *)
(***************************************************************************)
MantBits == 53

FZero == [m |-> BigZero, e |-> 0]

\* the float nearest to (n + sticky) * 2^e, ties to even; n > 0, and sticky
\* says that the exact value lies strictly above n * 2^e (below (n+1) * 2^e)
FRound(n, e, sticky) ==
  LET bl == BigBitLen(n)
  IN  IF bl <= MantBits
      THEN [m |-> BigShl(n, MantBits - bl), e |-> e - (MantBits - bl)]
      ELSE LET r == bl - MantBits
               q == BigShr(n, r)
               rem == BigSub(n, BigShl(q, r))
               half == BigShl(BigOne, r - 1)
               up == \/ BigLess(half, rem)
                     \/ rem = half /\ (sticky \/ BigIsOdd(q))
               q1 == IF up THEN BigAdd(q, BigOne) ELSE q
           IN  IF BigBitLen(q1) > MantBits
               THEN [m |-> ShrBits(q1, 1), e |-> e + r + 1]
               ELSE [m |-> q1, e |-> e + r]

FFromInt(n) == IF n = 0 THEN FZero ELSE FRound(BigFromInt(n), 0, FALSE)

FOne == FFromInt(1)

FMul(x, y) ==
  IF x = FZero \/ y = FZero THEN FZero
  ELSE FRound(BigMul(x.m, y.m), x.e + y.e, FALSE)

\* x / y for y # 0: the first quotient bit, then 55 more in two runs
FDiv(x, y) ==
  IF x = FZero THEN FZero
  ELSE LET first == ~BigLess(x.m, y.m)
           r0 == IF first THEN BigSub(x.m, y.m) ELSE x.m
           hi == DivBits(IF first THEN 1 ELSE 0, r0[2], r0[1], y.m[2], y.m[1], 27)
           lo == DivBits(0, hi[2], hi[3], y.m[2], y.m[1], 28)
           q == <<lo[1] % Base, (lo[1] \div Base) + (hi[1] % 2^26) * 2, hi[1] \div 2^26, 0>>
       IN  FRound(q, x.e - y.e - 55, lo[2] # 0 \/ lo[3] # 0)

\* math.sqrt of an integer n, 0 <= n < 2^31
FSqrt(n) ==
  IF n = 0 THEN FZero
  ELSE LET bl == IntBitLen(n)
           sh == IF bl % 2 = 0 THEN 108 - bl ELSE 107 - bl
           sr == SqrtLoop(BigShl(BigFromInt(n), sh), BigZero, 106)
       IN  FRound(sr[1], 0 - (sh \div 2), sr[2] # BigZero)

FAdd(x, y) ==
  IF x = FZero THEN y
  ELSE IF y = FZero THEN x
  ELSE LET hi == IF x.e >= y.e THEN x ELSE y
           lo == IF x.e >= y.e THEN y ELSE x
           d == hi.e - lo.e
       IN  IF d > 54 THEN hi
           ELSE FRound(BigAdd(BigShl(hi.m, d), lo.m), lo.e, FALSE)

FLeq(x, y) ==
  IF x = FZero THEN TRUE
  ELSE IF y = FZero THEN FALSE
  ELSE IF x.e # y.e THEN x.e < y.e
  ELSE ~BigLess(y.m, x.m)

(***************************************************************************)
(* The SQL front end (sqlglot: parse_one, normalize, Expression.sql, diff, *)
(* tokenize) is the environment of eval.py.  A SQL text is held as the     *)
(* sequence of its token texts, as the tokenizer splits it; the empty      *)
(* string is <<>>.  A JSON value that may be null is [none, str].          *)
(***************************************************************************)
MaxLen == 2

MaxTokens == 3

Questions == {"A", "B"}

TokenTexts == {"SELECT", "select", "1", "-"}

PyNone == [none |-> TRUE, str |-> <<>>]

PyStr(s) == [none |-> FALSE, str |-> s]

\* mutant of Truthy: only None counts as no query (a test `is None`)
TruthyUnlessNone(v) == ~v.none

\* Python's truth value of a str-or-None: None and "" are false
Truthy(v) == ~v.none /\ v.str # <<>>

\* str.lower() and the generator's upper-casing of keywords, on token texts
Lower(t) == IF t = "SELECT" THEN "select" ELSE t

Upper(t) == IF t = "select" THEN "SELECT" ELSE t

\* the statements of the sample dialect that parse_one accepts: SELECT 1, SELECT - 1
ParseOk(sql) ==
  /\ Len(sql) \in {2, 3}
  /\ Upper(sql[1]) = "SELECT"
  /\ sql[Len(sql)] = "1"
  /\ Len(sql) = 3 => sql[2] = "-"

\* tokenize(sql): the token texts, in order
tokenize(sql) == sql

\* diff(a, b, delta_only=True): the sizes an edit script may have; identical
\* trees have an empty script and different ones at least one edit.  That a
\* script is no longer than the two trees have nodes is assumed of the
\* library here; eval.py itself puts no bound on len(edits)
DiffSizes(nodes_1, nodes_2, same) ==
  IF same THEN {0} ELSE 1..(nodes_1 + nodes_2)

\* mutant of normalize_sql: parse errors are ignored, whatever was read is printed
NormalizeSqlLenient(sql) == [ok |-> TRUE, sql |-> [i \in DOMAIN sql |-> Upper(sql[i])]]

\* normalize_sql: parse, normalize, print; ok = FALSE is parse_one raising
normalize_sql(sql) ==
  IF ParseOk(sql)
  THEN [ok |-> TRUE, sql |-> [i \in DOMAIN sql |-> Upper(sql[i])]]
  ELSE [ok |-> FALSE, sql |-> <<>>]

\* count_nodes(parse_one(sql)): in the sample dialect each token is one node
\* (Select, Neg, Literal)
count_nodes(sql) == Len(sql)

\* len(edits) / total_nodes: int / int, correctly rounded (every value, once)
true_div[n \in 0..(2 * MaxTokens), d \in 1..(2 * MaxTokens)] ==
  FDiv(FFromInt(n), FFromInt(d))

\* ast_distance, with n_edits = len(diff(sql_1_ast, sql_2_ast, delta_only=True))
ast_distance(sql_1, sql_2, n_edits) ==
  LET total_nodes == count_nodes(sql_1) + count_nodes(sql_2)
  IN  IF total_nodes > 0 THEN true_div[n_edits, total_nodes] ELSE FZero

\* tokenize_sql: the Counter of the lower-cased token texts
tokenize_sql(sql) ==
  LET parsed == tokenize(sql)
      keys == {Lower(parsed[i]) : i \in DOMAIN parsed}
  IN  [k \in keys |-> Cardinality({i \in DOMAIN parsed : Lower(parsed[i]) = k})]

\* sum(f[k] for k in S) over integers
RECURSIVE IntSum(_, _)
IntSum(f, S) ==
  IF S = {} THEN 0
  ELSE LET k == CHOOSE x \in S : TRUE
       IN  f[k] + IntSum(f, S \ {k})

\* sum(tokens[t] ** 2 for t in tokens)
SumSquares(tokens) ==
  IntSum([t \in DOMAIN tokens |-> tokens[t] * tokens[t]], DOMAIN tokens)

\* math.sqrt of a sum of squares (every value, once)
magnitude[sq \in 0..(MaxTokens * MaxTokens)] == FSqrt(sq)

\* the values a dot product and a non-zero sum of squares can take
DotProducts == 0..(MaxTokens * MaxTokens)

SquareSums == 1..(MaxTokens * MaxTokens)

\* dot_product / (magnitude1 * magnitude2) in float arithmetic (every value, once)
dot_over_magnitudes[dot \in DotProducts, sq1 \in SquareSums, sq2 \in SquareSums] ==
  FDiv(FFromInt(dot), FMul(magnitude[sq1], magnitude[sq2]))

cosine_similarity(sql_1, sql_2) ==
  LET tokens_1 == tokenize_sql(sql_1)
      tokens_2 == tokenize_sql(sql_2)
  IN  IF Cardinality(DOMAIN tokens_1) = 0 \/ Cardinality(DOMAIN tokens_2) = 0
      THEN FZero
      ELSE LET intersection == DOMAIN tokens_1 \cap DOMAIN tokens_2
               dot_product ==
                 IntSum([t \in intersection |-> tokens_1[t] * tokens_2[t]], intersection)
           IN  dot_over_magnitudes[dot_product, SumSquares(tokens_1), SumSquares(tokens_2)]

(***************************************************************************)
(* evaluate_query.  The outcome is [error, result, normalized]: error is   *)
(* "" on return and the exception otherwise; normalized lists the texts    *)
(* that were handed to normalize_sql, in order.                            *)
(***************************************************************************)
NoResult ==
  [question |-> "", generated_query |-> PyNone, reference_query |-> <<>>,
   ast_distance |-> FZero, token_cosine |-> FZero]

Raised(kind, normalized) ==
  [error |-> kind, result |-> NoResult, normalized |-> normalized]

Returned(gen_query, ref_example, dist, cos, normalized) ==
  [error |-> "",
   result |-> [question |-> gen_query.question,
               generated_query |-> gen_query.generated_query,
               reference_query |-> ref_example.query,
               ast_distance |-> dist,
               token_cosine |-> cos],
   normalized |-> normalized]

\* lines 81-90: both texts normalized, then both metrics
Scored(gen_query, ref_example, n_edits) ==
  LET gen == normalize_sql(gen_query.generated_query.str)
      ref == normalize_sql(ref_example.query)
  IN  IF ~gen.ok THEN Raised("ParseError", <<gen_query.generated_query.str>>)
      ELSE IF ~ref.ok
      THEN Raised("ParseError", <<gen_query.generated_query.str, ref_example.query>>)
      ELSE Returned(gen_query, ref_example,
                    ast_distance(gen.sql, ref.sql, n_edits),
                    cosine_similarity(gen.sql, ref.sql),
                    <<gen_query.generated_query.str, ref_example.query>>)

\* lines 72-79: the edge case of no query returned
Degenerate(gen_query, ref_example) ==
  Returned(gen_query, ref_example, FOne, FZero, <<>>)

\* mutant of evaluate_query: the edge case is handled before the questions are compared
EvaluateQueryEdgeCaseFirst(gen_query, ref_example, n_edits) ==
  IF ~Truthy(gen_query.generated_query) THEN Degenerate(gen_query, ref_example)
  ELSE IF gen_query.question # ref_example.question THEN Raised("ValueError", <<>>)
  ELSE Scored(gen_query, ref_example, n_edits)

evaluate_query(gen_query, ref_example, n_edits) ==
  IF gen_query.question # ref_example.question THEN Raised("ValueError", <<>>)
  ELSE IF ~Truthy(gen_query.generated_query) THEN Degenerate(gen_query, ref_example)
  ELSE Scored(gen_query, ref_example, n_edits)

\* the edit-script sizes diff may return when evaluate_query reaches it
EditChoices(gen_query, ref_example) ==
  LET gen == normalize_sql(gen_query.generated_query.str)
      ref == normalize_sql(ref_example.query)
  IN  IF gen_query.question = ref_example.question
         /\ Truthy(gen_query.generated_query) /\ gen.ok /\ ref.ok
      THEN DiffSizes(count_nodes(gen.sql), count_nodes(ref.sql), gen.sql = ref.sql)
      ELSE {0}

(***************************************************************************)
(* main: the batch run.                                                    *)
(***************************************************************************)
Min(a, b) == IF a < b THEN a ELSE b

\* mutant of zip: one pair short
ZipOneShort(gens, refs) ==
  [k \in 1..(Min(Len(gens), Len(refs)) - 1) |-> <<gens[k], refs[k]>>]

\* zip(generated_queries, reference_examples): stops with the shorter one
zip(gens, refs) ==
  [k \in 1..Min(Len(gens), Len(refs)) |-> <<gens[k], refs[k]>>]

\* sum(values): from 0, left to right
RECURSIVE py_sum(_, _)
py_sum(acc, values) ==
  IF values = <<>> THEN acc
  ELSE py_sum(FAdd(acc, Head(values)), Tail(values))

\* mutant of metrics: an empty list averages to 0
MetricsZeroWhenEmpty(rs) ==
  [error |-> "",
   ast_distance_mean |->
     IF Len(rs) = 0 THEN FZero
     ELSE FDiv(py_sum(FZero, [k \in DOMAIN rs |-> rs[k].ast_distance]), FFromInt(Len(rs))),
   token_cosine_mean |->
     IF Len(rs) = 0 THEN FZero
     ELSE FDiv(py_sum(FZero, [k \in DOMAIN rs |-> rs[k].token_cosine]), FFromInt(Len(rs)))]

\* mutant of metrics: the means are taken over the examples that have a query
MetricsOverAnswered(rs) ==
  LET answered == SelectSeq(rs, LAMBDA r : Truthy(r.generated_query))
  IN  IF Len(answered) = 0
      THEN [error |-> "ZeroDivisionError",
            ast_distance_mean |-> FZero, token_cosine_mean |-> FZero]
      ELSE [error |-> "",
            ast_distance_mean |->
              FDiv(py_sum(FZero, [k \in DOMAIN answered |-> answered[k].ast_distance]),
                   FFromInt(Len(answered))),
            token_cosine_mean |->
              FDiv(py_sum(FZero, [k \in DOMAIN answered |-> answered[k].token_cosine]),
                   FFromInt(Len(answered)))]

\* lines 123-128: error is "ZeroDivisionError" when results is empty
metrics(rs) ==
  IF Len(rs) = 0
  THEN [error |-> "ZeroDivisionError",
        ast_distance_mean |-> FZero, token_cosine_mean |-> FZero]
  ELSE [error |-> "",
        ast_distance_mean |->
          FDiv(py_sum(FZero, [k \in DOMAIN rs |-> rs[k].ast_distance]),
               FFromInt(Len(rs))),
        token_cosine_mean |->
          FDiv(py_sum(FZero, [k \in DOMAIN rs |-> rs[k].token_cosine]),
               FFromInt(Len(rs)))]

VARIABLES
  generated_queries,   \* the loaded generated-queries file
  reference_examples,  \* the loaded reference-examples file
  pc,                  \* "loop", "save", "metrics", "done", "failed", "idle"
  results,             \* main's results list
  error,               \* the exception that ended the run, or ""
  eval_json,           \* [written, data]: output_dir / "eval.json"
  metrics_json,        \* [written, data]: output_dir / "metrics.json"
  calls,               \* the calls of evaluate_query so far, with their outcomes
  sql_1, sql_2,        \* the arguments of a call of cosine_similarity
  cos_pc,              \* "call", "returned", "idle"
  cosine               \* what that call returned

vars == <<generated_queries, reference_examples, pc, results, error, eval_json,
          metrics_json, calls, sql_1, sql_2, cos_pc, cosine>>

batch_vars == <<generated_queries, reference_examples, pc, results, error,
                eval_json, metrics_json, calls>>

cos_vars == <<sql_1, sql_2, cos_pc, cosine>>

RECURSIVE SeqsUpTo(_, _)
SeqsUpTo(S, n) ==
  IF n = 0 THEN {<<>>}
  ELSE LET shorter == SeqsUpTo(S, n - 1)
       IN  shorter \cup {Append(s, x) : s \in {t \in shorter : Len(t) = n - 1}, x \in S}

GenQueryValues ==
  {PyNone, PyStr(<<>>), PyStr(<<"select", "1">>), PyStr(<<"SELECT", "(">>)}

RefQueryValues == {<<"SELECT", "1">>, <<"SELECT", "-", "1">>, <<"SELECT", "(">>}

GenRecords == [question : Questions, generated_query : GenQueryValues]

RefRecords == [question : Questions, query : RefQueryValues]

NotWritten == [written |-> FALSE, data |-> <<>>]

CosIdle ==
  /\ sql_1 = <<>>
  /\ sql_2 = <<>>
  /\ cos_pc = "idle"
  /\ cosine = FZero

BatchIdle ==
  /\ generated_queries = <<>>
  /\ reference_examples = <<>>
  /\ pc = "idle"
  /\ results = <<>>
  /\ error = ""
  /\ eval_json = NotWritten
  /\ metrics_json = NotWritten
  /\ calls = <<>>

\* main after lines 106-115: both files are loaded, results is empty
Init ==
  /\ generated_queries \in SeqsUpTo(GenRecords, MaxLen)
  /\ reference_examples \in SeqsUpTo(RefRecords, MaxLen)
  /\ pc = "loop"
  /\ results = <<>>
  /\ error = ""
  /\ eval_json = NotWritten
  /\ metrics_json = NotWritten
  /\ calls = <<>>
  /\ CosIdle

Pairs == zip(generated_queries, reference_examples)

\* mutant of EvaluateNext: a pair that fails is skipped and the loop goes on
EvaluateNextSkipping ==
  /\ pc = "loop"
  /\ Len(calls) < Len(Pairs)
  /\ LET pair == Pairs[Len(calls) + 1]
     IN  \E n_edits \in EditChoices(pair[1], pair[2]) :
           LET out == evaluate_query(pair[1], pair[2], n_edits)
           IN  /\ calls' = Append(calls, [gen |-> pair[1], ref |-> pair[2], out |-> out])
               /\ results' = IF out.error = "" THEN Append(results, out.result) ELSE results
               /\ UNCHANGED <<pc, error>>
  /\ UNCHANGED <<generated_queries, reference_examples, eval_json, metrics_json>>
  /\ UNCHANGED cos_vars

\* mutant of EvaluateNext: eval.json is rewritten after every pair
EvaluateNextFlushing ==
  /\ pc = "loop"
  /\ Len(calls) < Len(Pairs)
  /\ LET pair == Pairs[Len(calls) + 1]
     IN  \E n_edits \in EditChoices(pair[1], pair[2]) :
           LET out == evaluate_query(pair[1], pair[2], n_edits)
           IN  /\ calls' = Append(calls, [gen |-> pair[1], ref |-> pair[2], out |-> out])
               /\ IF out.error = ""
                  THEN /\ results' = Append(results, out.result)
                       /\ eval_json' = [written |-> TRUE, data |-> results']
                       /\ UNCHANGED <<pc, error>>
                  ELSE /\ pc' = "failed"
                       /\ error' = out.error
                       /\ UNCHANGED <<results, eval_json>>
  /\ UNCHANGED <<generated_queries, reference_examples, metrics_json>>
  /\ UNCHANGED cos_vars

\* lines 116-117: one iteration of the loop
EvaluateNext ==
  /\ pc = "loop"
  /\ Len(calls) < Len(Pairs)
  /\ LET pair == Pairs[Len(calls) + 1]
     IN  \E n_edits \in EditChoices(pair[1], pair[2]) :
           LET out == evaluate_query(pair[1], pair[2], n_edits)
           IN  /\ calls' = Append(calls, [gen |-> pair[1], ref |-> pair[2], out |-> out])
               /\ IF out.error = ""
                  THEN /\ results' = Append(results, out.result)
                       /\ UNCHANGED <<pc, error>>
                  ELSE /\ pc' = "failed"
                       /\ error' = out.error
                       /\ UNCHANGED results
  /\ UNCHANGED <<generated_queries, reference_examples, eval_json, metrics_json>>
  /\ UNCHANGED cos_vars

\* line 120: the loop is over, eval.json is written
SaveResults ==
  /\ pc = "loop"
  /\ Len(calls) = Len(Pairs)
  /\ eval_json' = [written |-> TRUE, data |-> results]
  /\ pc' = "metrics"
  /\ UNCHANGED <<generated_queries, reference_examples, results, error,
                 metrics_json, calls>>
  /\ UNCHANGED cos_vars

\* lines 123-129: the means, then metrics.json
SaveMetrics ==
  /\ pc = "metrics"
  /\ LET m == metrics(results)
     IN  IF m.error # ""
         THEN /\ pc' = "failed"
              /\ error' = m.error
              /\ UNCHANGED metrics_json
         ELSE /\ pc' = "done"
              /\ metrics_json' =
                   [written |-> TRUE,
                    data |-> [ast_distance_mean |-> m.ast_distance_mean,
                              token_cosine_mean |-> m.token_cosine_mean]]
              /\ UNCHANGED error
  /\ UNCHANGED <<generated_queries, reference_examples, results, eval_json, calls>>
  /\ UNCHANGED cos_vars

Next == EvaluateNext \/ SaveResults \/ SaveMetrics

Spec == Init /\ [][Next]_vars

(***************************************************************************)
(* cosine_similarity on its own: one call on two texts of the tokenizer's  *)
(* alphabet.                                                               *)
(***************************************************************************)
InitCos ==
  /\ sql_1 \in SeqsUpTo(TokenTexts, MaxTokens)
  /\ sql_2 \in SeqsUpTo(TokenTexts, MaxTokens)
  /\ cos_pc = "call"
  /\ cosine = FZero
  /\ BatchIdle

CosineCall ==
  /\ cos_pc = "call"
  /\ cosine' = cosine_similarity(sql_1, sql_2)
  /\ cos_pc' = "returned"
  /\ UNCHANGED <<sql_1, sql_2>>
  /\ UNCHANGED batch_vars

NextCos == CosineCall

SpecCos == InitCos /\ [][NextCos]_vars

(***************************************************************************)
(* The claims.                                                             *)
(***************************************************************************)
ZipLen == Min(Len(generated_queries), Len(reference_examples))

QuestionsMatch(c) == c.gen.question = c.ref.question

\* a generated_query that is empty ("") or absent (null)
EmptyOrAbsent(v) == v = PyStr(<<>>) \/ v = PyNone

\* the sum of the first k values, added in order
RECURSIVE SumTo(_, _)
SumTo(values, k) == IF k = 0 THEN FZero ELSE FAdd(SumTo(values, k - 1), values[k])

MeanOf(values) == FDiv(SumTo(values, Len(values)), FFromInt(Len(values)))

\* C1: a call of evaluate_query on a pair whose questions differ raises the
\* question-mismatch error (the ValueError of line 69) for every value of
\* generated_query, an empty one included: the pair is not scored and no
\* result is kept for it.
C1_MismatchRaises ==
  \A k \in DOMAIN calls :
    ~QuestionsMatch(calls[k])
      => /\ calls[k].out.error = "ValueError"
         /\ calls[k].out.result = NoResult
         /\ Len(results) < k

\* C1 witness: a mismatched pair with an empty generated_query has raised.
C1_Witness ==
  \E k \in DOMAIN calls :
    /\ ~QuestionsMatch(calls[k])
    /\ calls[k].gen.generated_query = PyStr(<<>>)
    /\ calls[k].out.error = "ValueError"

\* C2: on a pair whose questions match and whose generated_query is empty or
\* absent, evaluate_query returns ast_distance 1 and token_cosine 0 and hands
\* nothing to normalize_sql, so it returns also when the reference query does
\* not parse.
C2_DegenerateShortCircuit ==
  \A k \in DOMAIN calls :
    QuestionsMatch(calls[k]) /\ EmptyOrAbsent(calls[k].gen.generated_query)
      => /\ calls[k].out.error = ""
         /\ calls[k].out.result.ast_distance = FOne
         /\ calls[k].out.result.token_cosine = FZero
         /\ calls[k].out.normalized = <<>>
         /\ k <= Len(results)
         /\ results[k] = calls[k].out.result

\* C2 witness: an empty generation against a reference that does not parse
\* has been scored.
C2_Witness ==
  \E k \in DOMAIN calls :
    /\ QuestionsMatch(calls[k])
    /\ calls[k].gen.generated_query = PyStr(<<>>)
    /\ ~ParseOk(calls[k].ref.query)
    /\ calls[k].out.error = ""
    /\ k <= Len(results)

\* C3: the loop evaluates generated[i] against reference[i] for i = 1, 2, ...
\* and never a position beyond the shorter input; result i carries the
\* question, generated_query and reference_query of position i; when every
\* pair has succeeded there are exactly min(N, M) results.
C3_PositionalPairing ==
  /\ Len(calls) <= ZipLen
  /\ Len(results) <= Len(calls)
  /\ \A k \in DOMAIN calls :
       /\ calls[k].gen = generated_queries[k]
       /\ calls[k].ref = reference_examples[k]
  /\ \A k \in DOMAIN results :
       /\ results[k] = calls[k].out.result
       /\ results[k].question = generated_queries[k].question
       /\ results[k].generated_query = generated_queries[k].generated_query
       /\ results[k].reference_query = reference_examples[k].query
  /\ eval_json.written => Len(eval_json.data) = ZipLen /\ eval_json.data = results

\* C3 witness: a run over a longer generated list and a shorter reference
\* list has ended with as many results as the reference list has records.
C3_Witness ==
  /\ pc = "done"
  /\ Len(generated_queries) > Len(reference_examples)
  /\ Len(results) = Len(reference_examples)
  /\ Len(results) >= 1

\* C4: when there is no pair to evaluate (min(N, M) = 0) the run ends in the
\* division-by-zero failure of the aggregation: metrics.json is never
\* written, so no mean is reported as 0 or NaN.
C4_EmptyBatchFails ==
  ZipLen = 0
    => /\ ~metrics_json.written
       /\ pc # "done"
       /\ pc = "failed" => error = "ZeroDivisionError" /\ results = <<>>

\* C4 witness: the run on two empty lists has failed.
C4_Witness ==
  /\ generated_queries = <<>>
  /\ reference_examples = <<>>
  /\ pc = "failed"
  /\ error = "ZeroDivisionError"

\* C5: when the evaluation of the pair at position k fails, the run stops
\* there: that call is the last one, the run has failed with its error, and
\* neither eval.json nor metrics.json is written.
C5_AbortOnFailure ==
  \A k \in DOMAIN calls :
    calls[k].out.error # ""
      => /\ k = Len(calls)
         /\ pc = "failed"
         /\ error = calls[k].out.error
         /\ Len(results) = k - 1
         /\ ~eval_json.written
         /\ ~metrics_json.written

\* C5 witness: the first pair failed while a second pair was still to come.
C5_Witness ==
  /\ ZipLen >= 2
  /\ Len(calls) = 1
  /\ calls[1].out.error # ""
  /\ pc = "failed"

\* C6: a run that completes with K >= 1 results reports, for each metric, the
\* sum over all K results divided by K; the results of the edge case (1 and
\* 0) are among the summands and are counted in K.
C6_Means ==
  pc = "done"
    => /\ Len(results) >= 1
       /\ Len(results) = ZipLen
       /\ metrics_json.written
       /\ metrics_json.data.ast_distance_mean =
            MeanOf([k \in DOMAIN results |-> results[k].ast_distance])
       /\ metrics_json.data.token_cosine_mean =
            MeanOf([k \in DOMAIN results |-> results[k].token_cosine])

\* C6 witness: a completed run with a result of the edge case and a scored one.
C6_Witness ==
  /\ pc = "done"
  /\ \E i, j \in DOMAIN results :
       /\ EmptyOrAbsent(results[i].generated_query)
       /\ ~EmptyOrAbsent(results[j].generated_query)
       /\ results[j].ast_distance # FZero

\* C7: for non-empty token multisets, 0 <= token_cosine <= 1, and the
\* token_cosine of a multiset with itself is 1.
C7_CosineBounds ==
  cos_pc = "returned" /\ sql_1 # <<>> /\ sql_2 # <<>>
    => /\ FLeq(FZero, cosine)
       /\ FLeq(cosine, FOne)
       /\ tokenize_sql(sql_1) = tokenize_sql(sql_2) => cosine = FOne

\* C8: on a pair with matching questions and a non-empty generated_query,
\* when the generated or the reference query does not parse, evaluate_query
\* raises the parse error and returns nothing: neither the score of the edge
\* case nor a result with one metric.
C8_ParseErrorPropagates ==
  \A k \in DOMAIN calls :
    /\ QuestionsMatch(calls[k])
    /\ ~EmptyOrAbsent(calls[k].gen.generated_query)
    /\ ~ParseOk(calls[k].gen.generated_query.str) \/ ~ParseOk(calls[k].ref.query)
    => /\ calls[k].out.error = "ParseError"
       /\ calls[k].out.result = NoResult
       /\ Len(results) < k

\* C8 witness: the generated query parsed, the reference did not, and the
\* call raised.
C8_Witness ==
  \E k \in DOMAIN calls :
    /\ QuestionsMatch(calls[k])
    /\ ~EmptyOrAbsent(calls[k].gen.generated_query)
    /\ ParseOk(calls[k].gen.generated_query.str)
    /\ ~ParseOk(calls[k].ref.query)
    /\ calls[k].out.error = "ParseError"

\* C10: metrics.json is written only when eval.json has been written in the
\* same run, and holds the means of exactly the results eval.json holds; a
\* run that fails never writes metrics.json, and a run that fails inside the
\* loop writes neither file.  (Nothing unwrites a file, so "only after" is
\* this state invariant.)
C10_ArtifactOrder ==
  /\ metrics_json.written
       => /\ eval_json.written
          /\ pc = "done"
          /\ Len(eval_json.data) >= 1
          /\ metrics_json.data =
               [ast_distance_mean |->
                  MeanOf([k \in DOMAIN eval_json.data |-> eval_json.data[k].ast_distance]),
                token_cosine_mean |->
                  MeanOf([k \in DOMAIN eval_json.data |-> eval_json.data[k].token_cosine])]
  /\ pc = "failed" => ~metrics_json.written
  /\ pc = "failed" /\ error \in {"ValueError", "ParseError"} => ~eval_json.written

\* C10 witness: a run has failed inside the loop after a pair had succeeded.
C10_Witness ==
  /\ pc = "failed"
  /\ error \in {"ValueError", "ParseError"}
  /\ Len(results) >= 1
  /\ ~eval_json.written
  /\ ~metrics_json.written
====
